---- MODULE Spec2Model ----
(***************************************************************************)
(* PyEPO: the TSP optimization models (pyepo/model/grb/tsp.py) and the     *)
(* SPO+ loss function (pkg/pyepo/func/spoplus.py).                         *)
(*                                                                         *)
(* Numbers are integers.  Solution entries of the integer models are 0/1   *)
(* (np.uint8), cost entries are small integers, and the two real-valued    *)
(* comparisons of the code (x > 1e-2 and the 1e-3 relative tolerance) are  *)
(* cross-multiplied so that they stay exact on integers.                   *)
(***************************************************************************)
EXTENDS Integers, Sequences, FiniteSets, TLC

VARIABLES
    models,        \* the optModel objects that exist, by identity 1..Len(models)
    last,          \* the outcome of the latest model operation
    gt,            \* the frame of tspABModel.getTour
    gOptmodel,     \* global _SPO_FUNC_SPOP_OPTMODEL
    gProcesses,    \* global _SPO_FUNC_SPOP_PROCESSES
    eng,           \* the SPOPlus objects constructed so far, with their arguments
    fwd,           \* the frame and the result of SPOPlus.forward
    tasks,         \* the tasks of the ProcessingPool of the running forward
    instances,     \* the models rebuilt inside pool workers
    saved,         \* ctx.saved_tensors
    bwd,           \* the result of SPOPlus.backward
    grb            \* the Gurobi side of a solve: the model solved, the callback, the result

vars == <<models, last, gt, gOptmodel, gProcesses, eng, fwd, tasks, instances, saved, bwd, grb>>

----------------------------------------------------------------------------
(* Bounds *)

\* the node count of every model that is built
NumNodes == 4
\* how many model objects may exist
MaxModels == 3
\* mp.cpu_count() of the machine
CpuCount == 2
\* the largest batch given to forward
MaxBatch == 2
\* how many SPOPlus objects may be constructed
MaxEngines == 2
\* the node count of the DFJ model whose cutting-plane loop is followed
CutNodes == 6

----------------------------------------------------------------------------
(* Vectors *)

\* np.dot on two vectors of one length
Dot(a, b) ==
    LET upto[k \in 0..Len(a)] == IF k = 0 THEN 0 ELSE a[k] * b[k] + upto[k - 1]
    IN  upto[Len(a)]

Abs(v) == IF v < 0 THEN -v ELSE v

\* sol[i] > 1e-2, on integers
Active(v) == 100 * v > 1

----------------------------------------------------------------------------
(* tspABModel: nodes and edges *)

\* len(self.edges): the pairs (i, j) with i < j
NumCost(n) == (n * (n - 1)) \div 2

\* position (from 1) of the pair (i, j), i < j, in self.edges, which lists the
\* pairs by i and then by j
EdgePos(n, i, j) == i * n - ((i * (i + 1)) \div 2) + (j - i)

\* self.edges
EdgeList(n) ==
    [k \in 1..NumCost(n) |->
        CHOOSE e \in (0..(n - 1)) \X (0..(n - 1)) : e[1] < e[2] /\ EdgePos(n, e[1], e[2]) = k]

\* position of the undirected edge between two distinct nodes
EdgeOf(n, a, b) == IF a < b THEN EdgePos(n, a, b) ELSE EdgePos(n, b, a)

----------------------------------------------------------------------------
(* The model classes *)

IntegerTypes == {"tspGGModel", "tspDFJModel", "tspMTZModel"}
RelTypes == {"tspGGModelRel", "tspMTZModelRel"}
TspTypes == IntegerTypes \cup RelTypes

\* an optModel class of another module whose Gurobi model maximizes; it is taken
\* to range over the tours too
MaxTypes == {"maxModel"}

\* the classes the loss function is bound to here: one of each sense (the three
\* integer formulations admit the same edge vectors, and the LP optimum of a
\* relaxation is not an integer vector and is not computed)
EngineTypes == {"tspDFJModel"} \cup MaxTypes

IsRel(type) == type \in RelTypes

\* optmodel.modelSense: m.modelSense = GRB.MINIMIZE in every _getModel of tsp.py
ModelSense(type) == IF type \in MaxTypes THEN "MAXIMIZE" ELSE "MINIMIZE"

\* type(num_nodes): a model as its constructor leaves it.  cons are the
\* inequalities added to the Gurobi model on top of those of _getModel, obj is
\* the cost vector of the objective (<<>> before the first setObj)
Construct(type, n) == [type |-> type, num_nodes |-> n, cons |-> <<>>, obj |-> <<>>]

\* tspABModel.copy
Copy(model) == Construct(model.type, model.num_nodes)

\* addConstr of tspGGModel, tspDFJModel and tspMTZModel (the relaxations inherit
\* it): the error raised, or the model returned
AddConstr(model, coefs, rhs) ==
    IF Len(coefs) # NumCost(model.num_nodes)
    THEN [err |-> "ValueError", new |-> <<>>]
    ELSE [err |-> "", new |-> <<[Copy(model) EXCEPT !.cons = Append(@, [coefs |-> coefs, rhs |-> rhs])]>>]

\* relax resolved as if the relaxation classes did not override it
RelaxInherited(model) ==
    [err |-> "", new |-> <<Construct(IF model.type \in {"tspGGModel", "tspGGModelRel"}
                                    THEN "tspGGModelRel" ELSE "tspMTZModelRel",
                                    model.num_nodes)>>]

\* relax of tspGGModel, tspMTZModel and of their relaxations
Relax(model) ==
    IF IsRel(model.type)
    THEN [err |-> "RuntimeError", new |-> <<>>]
    ELSE [err |-> "", new |-> <<Construct(IF model.type = "tspGGModel"
                                         THEN "tspGGModelRel" ELSE "tspMTZModelRel",
                                         model.num_nodes)>>]

\* which getTour a call on a model of this type runs
GetTourMethod(type) == IF IsRel(type) THEN "raise RuntimeError" ELSE "tspABModel.getTour"

\* the record of a constructor or method call: the receiver (for SPOPlus, the
\* optmodel argument), the error raised ("" for none), the identity of the object
\* returned (0 for none), the models before the call, the coefs of addConstr, and
\* the number given (rhs of addConstr, processes of SPOPlus)
OpRec(op, self, err, ret, pre, coefs, num) ==
    [op |-> op, self |-> self, err |-> err, ret |-> ret, pre |-> pre, coefs |-> coefs, num |-> num]

NoOp == OpRec("", 0, "", 0, <<>>, <<>>, 0)

\* a model is constructed
NewModel(type) ==
    /\ Len(models) < MaxModels
    /\ models' = Append(models, Construct(type, NumNodes))
    /\ last' = OpRec("new", 0, "", Len(models) + 1, models, <<>>, 0)
    /\ UNCHANGED <<grb, gt, gOptmodel, gProcesses, eng, fwd, tasks, instances, saved, bwd>>

\* models[m].copy()
CopyCall(m) ==
    /\ Len(models) < MaxModels
    /\ models' = Append(models, Copy(models[m]))
    /\ last' = OpRec("copy", m, "", Len(models) + 1, models, <<>>, 0)
    /\ UNCHANGED <<grb, gt, gOptmodel, gProcesses, eng, fwd, tasks, instances, saved, bwd>>

\* models[m].addConstr(coefs, rhs)
AddConstrCall(m, coefs, rhs) ==
    /\ Len(models) < MaxModels
    /\ LET r == AddConstr(models[m], coefs, rhs)
       IN  /\ models' = models \o r.new
           /\ last' = OpRec("addConstr", m, r.err, IF r.err = "" THEN Len(models) + 1 ELSE 0,
                            models, coefs, rhs)
    /\ UNCHANGED <<grb, gt, gOptmodel, gProcesses, eng, fwd, tasks, instances, saved, bwd>>

\* models[m].relax(), for the classes of this file that define relax
RelaxCall(m) ==
    /\ Len(models) < MaxModels
    /\ models[m].type # "tspDFJModel"
    /\ LET r == Relax(models[m])
       IN  /\ models' = models \o r.new
           /\ last' = OpRec("relax", m, r.err, IF r.err = "" THEN Len(models) + 1 ELSE 0,
                            models, <<>>, 0)
    /\ UNCHANGED <<grb, gt, gOptmodel, gProcesses, eng, fwd, tasks, instances, saved, bwd>>

\* models[m].getTour(sol) on a relaxation
GetTourForbidden(m, sol) ==
    /\ GetTourMethod(models[m].type) = "raise RuntimeError"
    /\ last' = OpRec("getTour", m, "RuntimeError", 0, models, <<>>, 0)
    /\ UNCHANGED <<grb, models, gt, gOptmodel, gProcesses, eng, fwd, tasks, instances, saved, bwd>>

\* coefficient vectors: the indicator of the first and of the second edge, and one
\* that is one entry short
UnitVec(n, e) == [k \in 1..NumCost(n) |-> IF k = e THEN 1 ELSE 0]
CoefPool(n) == {UnitVec(n, 1), UnitVec(n, 2), [k \in 1..(NumCost(n) - 1) |-> 1]}
RhsPool == {0, 1}

----------------------------------------------------------------------------
(* tspABModel.getTour *)

\* edges = defaultdict(list) after the loop over self.edges: the keys are the
\* nodes with an active edge, each with its neighbours in the order of appending
RECURSIVE ActiveEdges(_, _, _)
ActiveEdges(n, sol, k) ==
    IF k = 0 THEN [v \in {} |-> <<>>]
    ELSE LET prev == ActiveEdges(n, sol, k - 1)
             e == EdgeList(n)[k]
             get(d, v) == IF v \in DOMAIN d THEN d[v] ELSE <<>>
             put(d, v, w) == [u \in (DOMAIN d) \cup {v} |->
                                 IF u = v THEN Append(get(d, v), w) ELSE d[u]]
         IN  IF Active(sol[k]) THEN put(put(prev, e[1], e[2]), e[2], e[1]) ELSE prev

\* edges[i] of a defaultdict: reading a missing key inserts it with an empty list
Touch(d, v) == IF v \in DOMAIN d THEN d ELSE [u \in (DOMAIN d) \cup {v} |-> IF u = v THEN <<>> ELSE d[u]]

Range(s) == {s[k] : k \in 1..Len(s)}

\* the first j in edges[i] that is not visited, or -1 when the for loop finds none
FirstUnvisited(adj, visited) ==
    IF \E k \in 1..Len(adj) : adj[k] \notin visited
    THEN adj[CHOOSE k \in 1..Len(adj) :
                 /\ adj[k] \notin visited
                 /\ \A h \in 1..(k - 1) : adj[h] \in visited]
    ELSE -1

\* while len(visited) < len(edges)
TourLoopCond(g) == Cardinality(g.visited) < Cardinality(DOMAIN g.edges)

\* the last two statements of getTour dropped: the tour is returned open
TourCloseNever(edges, tour) == tour

\* if 0 in edges[tour[-1]]: tour.append(0)
TourClose(edges, tour) ==
    IF 0 \in Range(Touch(edges, tour[Len(tour)])[tour[Len(tour)]]) THEN Append(tour, 0) ELSE tour

GtIdle == [pc |-> "idle", n |-> 0, sol |-> <<>>, edges |-> <<>>, visited |-> {}, tour |-> <<>>]

\* entry of getTour on an integer model, up to the while loop
GetTourCall(m, sol) ==
    /\ gt.pc = "idle"
    /\ GetTourMethod(models[m].type) = "tspABModel.getTour"
    /\ gt' = [pc |-> "loop", n |-> models[m].num_nodes, sol |-> sol,
              edges |-> ActiveEdges(models[m].num_nodes, sol, NumCost(models[m].num_nodes)),
              visited |-> {0}, tour |-> <<0>>]
    /\ UNCHANGED <<grb, models, last, gOptmodel, gProcesses, eng, fwd, tasks, instances, saved, bwd>>

\* one iteration of the while loop
GetTourStep ==
    /\ gt.pc = "loop"
    /\ TourLoopCond(gt)
    /\ LET i == gt.tour[Len(gt.tour)]
           d == Touch(gt.edges, i)
           j == FirstUnvisited(d[i], gt.visited)
       IN  gt' = IF j = -1
                 THEN [gt EXCEPT !.edges = d]
                 ELSE [gt EXCEPT !.edges = d, !.tour = Append(gt.tour, j),
                                 !.visited = gt.visited \cup {j}]
    /\ UNCHANGED <<grb, models, last, gOptmodel, gProcesses, eng, fwd, tasks, instances, saved, bwd>>

\* the loop ends, the tour is closed and returned
GetTourReturn ==
    /\ gt.pc = "loop"
    /\ ~TourLoopCond(gt)
    /\ gt' = [gt EXCEPT !.pc = "done",
                        !.edges = Touch(gt.edges, gt.tour[Len(gt.tour)]),
                        !.tour = TourClose(gt.edges, gt.tour)]
    /\ UNCHANGED <<grb, models, last, gOptmodel, gProcesses, eng, fwd, tasks, instances, saved, bwd>>

\* 0/1 vectors over the edges of n nodes: the values an integer model's solve returns
BinarySols(n) == [1..NumCost(n) -> {0, 1}]

\* node counts of the models getTour is called on
TourNodeCounts == 3..NumNodes

----------------------------------------------------------------------------
(* Solving a model *)

Nodes(n) == 0..(n - 1)

\* the nodes joined to v by an active edge of sol
Adjacent(n, sol, v) == {u \in Nodes(n) \ {v} : Active(sol[EdgeOf(n, u, v)])}

\* sol selects exactly the edges of one cycle through all n nodes: every node
\* has two active edges, and active edges leave every proper part of the nodes
IsHamiltonianCycle(n, sol) ==
    /\ \A v \in Nodes(n) : Cardinality(Adjacent(n, sol, v)) = 2
    /\ \A part \in SUBSET Nodes(n) :
          (part # {} /\ part # Nodes(n)) =>
              \E v \in part : Adjacent(n, sol, v) \ part # {}

\* the edge vectors the constraints of _getModel admit: degree constraints and
\* subtour elimination (flows in GG, potentials in MTZ, lazy cuts in DFJ)
Tours(n) == {s \in {x : x \in BinarySols(n)} : IsHamiltonianCycle(n, s)}

TourSet == Tours(NumNodes)

\* the feasible edge vectors of a model: the tours that satisfy the inequalities
\* added by addConstr
Feasible(model) ==
    {s \in (IF model.num_nodes = NumNodes THEN TourSet ELSE Tours(model.num_nodes)) :
        \A k \in 1..Len(model.cons) : Dot(model.cons[k].coefs, s) <= model.cons[k].rhs}

\* setObj: the length check and the new objective
SetObj(model, c) ==
    IF Len(c) # NumCost(model.num_nodes)
    THEN [err |-> "ValueError", model |-> model]
    ELSE [err |-> "", model |-> [model EXCEPT !.obj = c]]

\* the best points of F for the objective obj
Optimal(F, obj, sense) ==
    UNION {IF sense = "MINIMIZE"
           THEN {s \in F : \A t \in F : val[s] <= val[t]}
           ELSE {s \in F : \A t \in F : val[s] >= val[t]} :
              val \in {[s \in F |-> Dot(obj, s)]}}

\* (sol, self._model.objVal)
Solution(s, obj) == [err |-> "", sol |-> s, obj |-> Dot(obj, s)]

\* optimize over the feasible set F; with no feasible point the read of x raises
Optimize(F, obj, sense) ==
    IF F = {}
    THEN [err |-> "GurobiError", sol |-> <<>>, obj |-> 0]
    ELSE Solution(CHOOSE x \in Optimal(F, obj, sense) : TRUE, obj)

\* solve: optimize and read the solution back.  Gurobi is taken to break ties
\* between optimal tours the same way on every run.
Solve(model) == Optimize(Feasible(model), model.obj, ModelSense(model.type))

----------------------------------------------------------------------------
(* The three formulations, as _getModel states them *)

\* the orders in which the members of S can be listed
RECURSIVE Perms(_)
Perms(S) ==
    IF S = {} THEN {<<>>}
    ELSE UNION {{<<v>> \o p : p \in Perms(S \ {v})} : v \in S}

\* binary x on the directed edges with x.sum("*", j) == 1 and x.sum(i, "*") == 1
\* for every node: every node has one selected arc out, to succ[i] # i (there
\* is no variable x[i,i]), and one selected arc in
Successors(n) ==
    {succ \in {[v \in Nodes(n) |-> p[v + 1]] : p \in Perms(Nodes(n))} :
        \A v \in Nodes(n) : succ[v] # v}

\* x[i,j] of a directed selection
Arc(succ, i, j) == IF succ[i] = j THEN 1 ELSE 0

\* GG, the flow y with the flow constraints dropped
GGFlowFree(n, succ) == TRUE

\* GG: there is a flow y >= 0 with y[i,j] <= (n - 1) * x[i,j] for i # 0, hence 0
\* off the selected arcs, and y.sum(i, "*") minus the flow into i from the
\* nodes other than 0 equal to 1 at every node i # 0.  y[i] is the flow on the
\* selected arc out of i; the equalities fix y, in integers, when they can hold
GGFlow(n, succ) ==
    \E y \in [1..(n - 1) -> 0..(n - 1)] :
        \A i \in 1..(n - 1) :
            LET into == {j \in 1..(n - 1) : j # i /\ Arc(succ, j, i) = 1}
            IN  y[i] - (IF into = {} THEN 0 ELSE y[CHOOSE j \in into : TRUE]) = 1

\* MTZ: there are potentials u >= 0 with u[j] - u[i] >= n * (x[i,j] - 1) + 1 for
\* the directed edges (i, j) off node 0.  These bound differences of potentials
\* by integers, so when they can hold they hold for integer potentials, and the
\* longest chain of selected arcs off node 0 has n - 2 arcs
MTZPotential(n, succ) ==
    \E u \in [1..(n - 1) -> 0..(n - 1)] :
        \A i \in 1..(n - 1) : \A j \in (1..(n - 1)) \ {i} :
            u[j] - u[i] >= n * (Arc(succ, i, j) - 1) + 1

\* solve of GG and MTZ: sol[k] = 1 when x[i,j] or x[j,i] is above 1e-2, which
\* is when edge k joins some node to its successor
EdgeVector(n, succ) ==
    [k \in 1..NumCost(n) |->
        IF \E i \in Nodes(n) : Active(Arc(succ, i, succ[i])) /\ EdgeOf(n, i, succ[i]) = k
        THEN 1 ELSE 0]

\* setObj of GG and MTZ: the sum of c[k] * (x[i,j] + x[j,i]) over the edges,
\* which has one term c[k] for every selected arc, on the edge k it runs along
DirectedObj(n, c, succ) ==
    LET upto[i \in (-1)..(n - 1)] ==
            IF i = -1 THEN 0 ELSE c[EdgeOf(n, i, succ[i])] * Arc(succ, i, succ[i]) + upto[i - 1]
    IN  upto[n - 1]

\* DFJ: binary x on the edges with x.sum(i, "*") == 2 for every node.  A 0/1
\* vector with two edges at every node is a union of cycles, so it is the edge
\* vector of a selection of Successors
Degree2(n) ==
    {s \in {EdgeVector(n, succ) : succ \in Successors(n)} :
        \A v \in Nodes(n) : Cardinality({u \in Nodes(n) \ {v} : s[EdgeOf(n, u, v)] = 1}) = 2}

----------------------------------------------------------------------------
(* tspDFJModel._subtourelim *)

\* the nodes j of selected.select(current, "*"), in the order of the keys of
\* model._x: the keys (current, j) of addVars with j above current, then the
\* keys (current, j) assigned by x[j, i] = x[i, j] with j below current
SelectedFrom(n, sol, current) ==
    SelectSeq([k \in 1..(n - 1) |-> IF k <= n - 1 - current THEN current + k ELSE k - (n - current)],
              LAMBDA j : Active(sol[EdgeOf(n, current, j)]))

\* unvisited.remove(current)
Remove(list, current) == SelectSeq(list, LAMBDA j : j # current)

\* the inner loop of subtour: while neighbors
RECURSIVE SubtourWalk(_, _, _, _, _)
SubtourWalk(n, sol, unvisited, neighbors, thiscycle) ==
    IF neighbors = <<>>
    THEN [thiscycle |-> thiscycle, unvisited |-> unvisited]
    ELSE SubtourWalk(n, sol, Remove(unvisited, Head(neighbors)),
                     SelectSeq(SelectedFrom(n, sol, Head(neighbors)),
                               LAMBDA j : j \in Range(Remove(unvisited, Head(neighbors)))),
                     Append(thiscycle, Head(neighbors)))

\* if len(cycle) > len(thiscycle), turned around: the longer walk is kept
KeepLonger(cycle, thiscycle) == IF Len(cycle) < Len(thiscycle) THEN thiscycle ELSE cycle

\* if len(cycle) > len(thiscycle): cycle = thiscycle
KeepShorter(cycle, thiscycle) == IF Len(cycle) > Len(thiscycle) THEN thiscycle ELSE cycle

\* the outer loop of subtour: while unvisited
RECURSIVE SubtourLoop(_, _, _, _)
SubtourLoop(n, sol, unvisited, cycle) ==
    IF unvisited = <<>>
    THEN cycle
    ELSE LET w == SubtourWalk(n, sol, unvisited, unvisited, <<>>)
         IN  SubtourLoop(n, sol, w.unvisited, KeepShorter(cycle, w.thiscycle))

\* subtour(selected, n), from unvisited = list(range(n)) and cycle = range(n + 1)
Subtour(n, sol) ==
    SubtourLoop(n, sol, [k \in 1..n |-> k - 1], [k \in 1..(n + 1) |-> k - 1])

\* the left side of the lazy cut at a vector s: the sum of x[i, j] over
\* combinations(tour, 2)
CutSum(n, tour, s) ==
    Cardinality({p \in (1..Len(tour)) \X (1..Len(tour)) :
                    p[1] < p[2] /\ s[EdgeOf(n, tour[p[1]], tour[p[2]])] = 1})

\* s satisfies the model's lazy cuts
SatisfiesCuts(n, cuts, s) == \A cut \in cuts : CutSum(n, cut.tour, s) <= cut.rhs

\* if len(tour) < model._n: the cuts handed to cbLazy
CutFor(n, tour) ==
    IF Len(tour) < n THEN {[tour |-> tour, rhs |-> Len(tour) - 1]} ELSE {}

\* the MIPSOL branch of the callback: the cuts it hands to cbLazy for the
\* candidate xvals
LazyCuts(n, xvals) == CutFor(n, Subtour(n, xvals))

----------------------------------------------------------------------------
(* The edge vectors each formulation admits, and its solve *)

\* node counts of the models whose formulations are compared
FormNodeCounts == 3..NumNodes

\* tspGGModel: the directed selections that carry a flow
GGSols(n) == {succ \in Successors(n) : GGFlow(n, succ)}

\* tspMTZModel: the directed selections that carry potentials
MTZSols(n) == {succ \in Successors(n) : MTZPotential(n, succ)}

\* tspDFJModel: the degree-2 vectors that the callback answers with no cut
DFJSols(n) == {s \in Degree2(n) : LazyCuts(n, s) = {}}

\* the Hamiltonian cycles of each node count
ToursTable == [n \in FormNodeCounts |-> Tours(n)]

GGTable == [n \in FormNodeCounts |-> GGSols(n)]
MTZTable == [n \in FormNodeCounts |-> MTZSols(n)]
DFJTable == [n \in FormNodeCounts |-> DFJSols(n)]

\* optimize() of a directed formulation (MINIMIZE), then the solution read back
\* as solve does: (sol, objVal)
SolveDirected(n, c, sols) ==
    UNION {{[sol |-> EdgeVector(n, best), obj |-> val[best]] :
               best \in {CHOOSE succ \in sols : \A t \in sols : val[succ] <= val[t]}} :
           val \in {[succ \in sols |-> DirectedObj(n, c, succ)]}}

\* optimize(self._subtourelim) of DFJ, then the solution read back
SolveUndirected(n, c, sols) ==
    UNION {{[sol |-> best, obj |-> val[best]] :
               best \in {CHOOSE s \in sols : \A t \in sols : val[s] <= val[t]}} :
           val \in {[s \in sols |-> Dot(c, s)]}}

\* type(n), setObj(c), solve()
FormSolve(type, n, c) ==
    CHOOSE r \in (CASE type = "tspGGModel" -> SolveDirected(n, c, GGTable[n])
                    [] type = "tspMTZModel" -> SolveDirected(n, c, MTZTable[n])
                    [] type = "tspDFJModel" -> SolveUndirected(n, c, DFJTable[n])) : TRUE

\* no solve has run.  op is the class solved or the function run, pc the place
\* of a followed optimize(), cuts the lazy cuts the search holds, refused the
\* number of candidates the callback has cut off, xvals the latest candidate
\* given to the callback and tour what subtour returned on it
GrbIdle ==
    [op |-> "", pc |-> "", n |-> 0, c |-> <<>>, sol |-> <<>>, obj |-> 0,
     cuts |-> {}, refused |-> 0, xvals |-> <<>>, tour |-> <<>>]

\* a model of the class is built on n nodes, given the cost c and solved
SolveCall(type, n, c) ==
    /\ grb.op = ""
    /\ grb' = [GrbIdle EXCEPT !.op = type, !.n = n, !.c = c,
                              !.sol = FormSolve(type, n, c).sol,
                              !.obj = FormSolve(type, n, c).obj]
    /\ UNCHANGED <<models, last, gt, gOptmodel, gProcesses, eng, fwd, tasks, instances, saved, bwd>>

\* cost vectors over the edges of n nodes, ties between tours included
FormCosts(n) == [1..NumCost(n) -> {1, 3}]

----------------------------------------------------------------------------
(* tspDFJModel.solve followed through the callback *)

\* node counts on which subtour is run: up to one node above the followed loop,
\* where the cycles of a candidate can differ in length
SubtourNodeCounts == 3..(CutNodes + 1)

\* the integer points of the degree constraints
Degree2Table == [n \in SubtourNodeCounts |-> Degree2(n)]

\* those of them that are one cycle through all the nodes
HamTable == [n \in SubtourNodeCounts |-> {s \in Degree2Table[n] : IsHamiltonianCycle(n, s)}]

\* what subtour returns on each of them
SubtourTable == [n \in SubtourNodeCounts |-> [s \in Degree2Table[n] |-> Subtour(n, s)]]

\* the callback with where = MIPSOL on a candidate, outside any solve
SubtourCall(n, xvals) ==
    /\ grb.op = ""
    /\ grb' = [GrbIdle EXCEPT !.op = "subtour", !.n = n, !.xvals = xvals,
                              !.tour = SubtourTable[n][xvals],
                              !.cuts = CutFor(n, SubtourTable[n][xvals])]
    /\ UNCHANGED <<models, last, gt, gOptmodel, gProcesses, eng, fwd, tasks, instances, saved, bwd>>

\* self._model.optimize(self._subtourelim) starts on a model of n nodes
OptimizeBegin(n) ==
    /\ grb.op = ""
    /\ grb' = [GrbIdle EXCEPT !.op = "optimize", !.pc = "search", !.n = n]
    /\ UNCHANGED <<models, last, gt, gOptmodel, gProcesses, eng, fwd, tasks, instances, saved, bwd>>

\* the integer points of the degree constraints of the model being optimized
Candidates == IF grb.op = "optimize" THEN Degree2Table[grb.n] ELSE {}

\* Gurobi finds an integer point of the degree constraints and of the lazy cuts
\* it holds, whichever, and calls _subtourelim(model, MIPSOL): with a cut handed
\* to cbLazy the point is refused and the search goes on with the cut added to
\* those it holds; with none the point is accepted and the search, with its
\* lazy cuts, is over
Callback(xvals) ==
    /\ grb.op = "optimize"
    /\ grb.pc = "search"
    /\ SatisfiesCuts(grb.n, grb.cuts, xvals)
    /\ \E cut \in {CutFor(grb.n, SubtourTable[grb.n][xvals])} :
          grb' = [grb EXCEPT !.xvals = xvals,
                             !.tour = SubtourTable[grb.n][xvals],
                             !.cuts = IF cut = {} THEN {} ELSE @ \cup cut,
                             !.refused = IF cut = {} THEN @ ELSE @ + 1,
                             !.pc = IF cut = {} THEN "done" ELSE "search",
                             !.sol = IF cut = {} THEN xvals ELSE <<>>]
    /\ UNCHANGED <<models, last, gt, gOptmodel, gProcesses, eng, fwd, tasks, instances, saved, bwd>>

----------------------------------------------------------------------------
(* SPOPlus.__init__ *)

\* the object given as optmodel is model number arg of the heap; 0 stands for an
\* object that is no optModel
IsOptModel(arg) == arg \in 1..Len(models)

\* the worker-count check dropped
ValidProcessesAny(processes) == TRUE

\* processes not in range(mp.cpu_count() + 1)
ValidProcesses(processes) == processes \in 0..CpuCount

\* SPOPlus(optmodel, processes)
NewSPOPlus(arg, processes) ==
    /\ Len(eng) < MaxEngines
    /\ fwd.pc \in {"idle", "done"}
    /\ IF ~IsOptModel(arg)
       THEN /\ last' = OpRec("SPOPlus", arg, "TypeError", 0, models, <<>>, processes)
            /\ UNCHANGED <<gOptmodel, gProcesses, eng>>
       ELSE /\ gOptmodel' = arg
            /\ IF ~ValidProcesses(processes)
               THEN /\ last' = OpRec("SPOPlus", arg, "ValueError", 0, models, <<>>, processes)
                    /\ UNCHANGED <<gProcesses, eng>>
               ELSE /\ gProcesses' = processes
                    /\ eng' = Append(eng, [optmodel |-> arg, processes |-> processes])
                    /\ last' = OpRec("SPOPlus", arg, "", Len(eng) + 1, models, <<>>, processes)
    /\ UNCHANGED <<grb, models, gt, fwd, tasks, instances, saved, bwd>>

----------------------------------------------------------------------------
(* SPOPlus.forward *)

FwdIdle ==
    [pc |-> "idle", self |-> 0, optmodel |-> 0, processes |-> 0, batch |-> <<>>, pre |-> <<>>,
     err |-> "", poolsize |-> 0, res |-> <<>>, order |-> <<>>,
     loss |-> <<>>, sol |-> <<>>, obj |-> <<>>, solvedOn |-> <<>>]

\* abs(z - dot(c, w)) / (abs(z) + 1e-3) >= 1e-3, both sides times 1e6 (abs(z) + 1e-3)
Inconsistent(ex) == 1000000 * Abs(ex.z - Dot(ex.c, ex.w)) >= 1000 * Abs(ex.z) + 1

\* only the first example is checked
CheckSolFirstOnly(batch) == Inconsistent(batch[1])

\* the check loop over the batch raises AssertionError
CheckSolFails(batch) == \E i \in 1..Len(batch) : Inconsistent(batch[i])

\* 2 * cp[i] - c[i]
SurrogateCost(ex) == [k \in 1..Len(ex.cp) |-> 2 * ex.cp[k] - ex.c[k]]

\* - objq + 2 * dot(cp, w) - z
LossEntry(objq, ex) == - objq + 2 * Dot(ex.cp, ex.w) - ex.z

\* loss = np.array(loss) for MINIMIZE, - np.array(loss) for MAXIMIZE
ApplySense(sense, loss) ==
    IF sense = "MAXIMIZE" THEN [i \in 1..Len(loss) |-> - loss[i]] ELSE loss

\* loss.append / sol.append after a solve, or the error of the solve
SingleKeep(acc, model, r) ==
    IF r.err # ""
    THEN [acc EXCEPT !.err = r.err, !.model = model]
    ELSE [err |-> "", model |-> model, obj |-> Append(acc.obj, r.obj), sol |-> Append(acc.sol, r.sol)]

\* optmodel.solve() after optmodel.setObj(2 * cp[i] - c[i])
SingleSolve(acc, set) ==
    IF set.err # "" THEN [acc EXCEPT !.err = set.err] ELSE SingleKeep(acc, set.model, Solve(set.model))

\* the single-core loop of forward from example k on: the bound model after the
\* setObj calls, the objective values and the solutions
RECURSIVE SingleLoop(_, _, _)
SingleLoop(acc, batch, k) ==
    IF k > Len(batch) \/ acc.err # "" THEN acc
    ELSE SingleLoop(SingleSolve(acc, SetObj(acc.model, SurrogateCost(batch[k]))), batch, k + 1)

\* the single-core branch of forward on a model
SingleRun(model, batch) ==
    SingleLoop([err |-> "", model |-> model, obj |-> <<>>, sol |-> <<>>], batch, 1)

\* the loss vector from the objective values of the surrogate solves
LossVector(sense, obj, batch) ==
    ApplySense(sense, [i \in 1..Len(batch) |-> LossEntry(obj[i], batch[i])])

\* what forward returns and keeps, from the objective values and the solutions
Finish(f, sense, obj, sol, solvedOn) ==
    [f EXCEPT !.pc = "done",
              !.obj = obj,
              !.sol = sol,
              !.solvedOn = solvedOn,
              !.loss = LossVector(sense, obj, f.batch)]

\* ctx.save_for_backward(true_sol, sol)
SavedTensors(batch, sol) == <<[w |-> [i \in 1..Len(batch) |-> batch[i].w], wq |-> sol]>>

\* the frame of forward after reading the globals
Enter(e, batch) ==
    [FwdIdle EXCEPT !.self = e, !.optmodel = gOptmodel, !.processes = gProcesses,
                    !.batch = batch, !.pre = models]

\* forward is called through SPOPlus object e when no call is under way
CanCall(e) ==
    /\ e \in 1..Len(eng)
    /\ fwd.pc = "idle"

\* forward raises AssertionError in the check loop
ForwardFail(e, batch) ==
    /\ CanCall(e)
    /\ CheckSolFails(batch)
    /\ fwd' = [Enter(e, batch) EXCEPT !.pc = "done", !.err = "AssertionError"]
    /\ saved' = <<>>
    /\ bwd' = <<>>
    /\ tasks' = <<>>
    /\ instances' = <<>>
    /\ UNCHANGED <<grb, models, last, gt, gOptmodel, gProcesses, eng>>

\* forward with processes == 1
ForwardSingle(e, batch) ==
    /\ CanCall(e)
    /\ ~CheckSolFails(batch)
    /\ gProcesses = 1
    /\ \E run \in {SingleRun(models[gOptmodel], batch)} : \E f \in {Enter(e, batch)} :
           /\ models' = [models EXCEPT ![gOptmodel] = run.model]
           /\ IF run.err # ""
              THEN /\ fwd' = [f EXCEPT !.pc = "done", !.err = run.err]
                   /\ saved' = <<>>
              ELSE /\ fwd' = Finish(f, ModelSense(models[gOptmodel].type), run.obj, run.sol,
                                    [i \in 1..Len(batch) |-> [kind |-> "model", id |-> gOptmodel]])
                   /\ saved' = SavedTensors(batch, run.sol)
    /\ bwd' = <<>>
    /\ tasks' = <<>>
    /\ instances' = <<>>
    /\ UNCHANGED <<grb, last, gt, gOptmodel, gProcesses, eng>>

\* getArgs(optmodel): the arguments of the constructor, read off the object
GetArgs(model) == [num_nodes |-> model.num_nodes]

\* optmodel = model_type(**args), with model_type and args taken from the bound model
Rebuild(model) == Construct(model.type, GetArgs(model).num_nodes)

\* processes = mp.cpu_count() if not processes else processes
PoolSize(processes) == IF processes = 0 THEN CpuCount ELSE processes

\* forward with processes != 1, up to the call of pool.amap
ForwardPoolBegin(e, batch) ==
    /\ CanCall(e)
    /\ ~CheckSolFails(batch)
    /\ gProcesses # 1
    /\ fwd' = [Enter(e, batch) EXCEPT !.pc = "pool",
                                      !.poolsize = PoolSize(gProcesses),
                                      !.res = [i \in 1..Len(batch) |-> <<>>]]
    /\ tasks' = [i \in 1..Len(batch) |->
                    [state |-> "queued", cost |-> SurrogateCost(batch[i]), inst |-> 0]]
    /\ instances' = <<>>
    /\ saved' = <<>>
    /\ bwd' = <<>>
    /\ UNCHANGED <<grb, models, last, gt, gOptmodel, gProcesses, eng>>

\* a free worker takes task i: solveWithObj4Par rebuilds the model and sets the objective
TaskStart(i) ==
    /\ fwd.pc = "pool"
    /\ tasks[i].state = "queued"
    /\ Cardinality({j \in 1..Len(tasks) : tasks[j].state = "running"}) < fwd.poolsize
    /\ instances' = Append(instances, SetObj(Rebuild(models[fwd.optmodel]), tasks[i].cost).model)
    /\ tasks' = [tasks EXCEPT ![i].state = "running", ![i].inst = Len(instances) + 1]
    /\ UNCHANGED <<grb, models, last, gt, gOptmodel, gProcesses, eng, fwd, saved, bwd>>

\* the results are kept in the order the tasks complete
CollectInCompletionOrder(res, i, r) ==
    [res EXCEPT ![CHOOSE k \in 1..Len(res) : res[k] = <<>> /\ \A h \in 1..(k - 1) : res[h] # <<>>] = <<r>>]

\* amap(...).get(): the result of task i is entry i of the list
Collect(res, i, r) == [res EXCEPT ![i] = <<r>>]

\* the worker of task i solves and returns (sol, obj)
TaskFinish(i) ==
    /\ fwd.pc = "pool"
    /\ tasks[i].state = "running"
    /\ tasks' = [tasks EXCEPT ![i].state = "done"]
    /\ fwd' = [fwd EXCEPT !.res = Collect(fwd.res, i, Solve(instances[tasks[i].inst])),
                          !.order = Append(fwd.order, i)]
    /\ UNCHANGED <<grb, models, last, gt, gOptmodel, gProcesses, eng, instances, saved, bwd>>

\* get() returns: the loss is computed from the list of results
ForwardPoolEnd ==
    /\ fwd.pc = "pool"
    /\ \A i \in 1..Len(tasks) : tasks[i].state = "done"
    /\ LET res == [i \in 1..Len(tasks) |-> fwd.res[i][1]]
       IN  IF \E i \in 1..Len(res) : res[i].err # ""
           THEN /\ fwd' = [fwd EXCEPT !.pc = "done", !.err = "GurobiError"]
                /\ saved' = <<>>
           ELSE /\ fwd' = Finish(fwd, ModelSense(models[fwd.optmodel].type),
                                 [i \in 1..Len(res) |-> res[i].obj],
                                 [i \in 1..Len(res) |-> res[i].sol],
                                 [i \in 1..Len(res) |-> [kind |-> "instance", id |-> tasks[i].inst]])
                /\ saved' = SavedTensors(fwd.batch, [i \in 1..Len(res) |-> res[i].sol])
    /\ UNCHANGED <<grb, models, last, gt, gOptmodel, gProcesses, eng, tasks, instances, bwd>>

----------------------------------------------------------------------------
(* SPOPlus.backward *)

\* the sum over the batch of a[i][k] - b[i][k]
SumDiff(a, b, k, i) ==
    LET upto[h \in 0..i] == IF h = 0 THEN 0 ELSE (a[h][k] - b[h][k]) + upto[h - 1]
    IN  upto[i]

\* the gradient of MINIMIZE for both senses
GradMinimizeOnly(sense, w, wq) ==
    [k \in 1..Len(w[1]) |-> 2 * SumDiff(w, wq, k, Len(w))]

\* grad = 2 * (w - wq).mean(0) for MINIMIZE, 2 * (wq - w).mean(0) for MAXIMIZE, as
\* numerators over the batch size Len(w)
Grad(sense, w, wq) ==
    IF sense = "MAXIMIZE"
    THEN [k \in 1..Len(w[1]) |-> 2 * SumDiff(wq, w, k, Len(w))]
    ELSE [k \in 1..Len(w[1]) |-> 2 * SumDiff(w, wq, k, Len(w))]

\* backward(ctx, grad_output): grad_output holds one number per example
Backward(e, up) ==
    /\ e \in 1..Len(eng)
    /\ fwd.pc = "done"
    /\ saved # <<>>
    /\ Len(up) = Len(saved[1].w)
    /\ LET g == Grad(ModelSense(models[gOptmodel].type), saved[1].w, saved[1].wq)
       IN  bwd' = <<[self |-> e, optmodel |-> gOptmodel, up |-> up,
                     grad |-> [i \in 1..Len(up) |-> [k \in 1..Len(g) |-> up[i] * g[k]]],
                     den |-> Len(saved[1].w),
                     others |-> <<"None", "None", "None">>]>>
    /\ UNCHANGED <<grb, models, last, gt, gOptmodel, gProcesses, eng, fwd, tasks, instances, saved>>

\* the training step is over: the loss, the gradient and ctx are dropped
Release ==
    /\ fwd.pc = "done"
    /\ fwd' = FwdIdle
    /\ tasks' = <<>>
    /\ instances' = <<>>
    /\ saved' = <<>>
    /\ bwd' = <<>>
    /\ UNCHANGED <<grb, models, last, gt, gOptmodel, gProcesses, eng>>

----------------------------------------------------------------------------
(* Inputs of forward and backward *)

\* cost vectors: increasing squares, decreasing squares, and a flat large one
CostUp(n) == [k \in 1..NumCost(n) |-> k * k]
CostDown(n) == [k \in 1..NumCost(n) |-> (NumCost(n) + 1 - k) * (NumCost(n) + 1 - k)]
CostFlat(n) == [k \in 1..NumCost(n) |-> 1000]

\* the true solution of a true cost: a cheapest tour
TrueSol(n, c) == Solve(SetObj(Construct("tspDFJModel", n), c).model).sol

\* an example: predicted cost, true cost, true solution, and a true objective that
\* is off the objective of the true solution by delta
Example(n, cp, c, delta) ==
    [cp |-> cp, c |-> c, w |-> TrueSol(n, c), z |-> Dot(c, TrueSol(n, c)) + delta]

\* the flat cost with an objective off by 1 is within the tolerance, the
\* increasing cost with an objective off by 1 is not
Examples ==
    {Example(NumNodes, x[1], x[2], x[3]) :
        x \in {<<CostUp(NumNodes), CostUp(NumNodes), 0>>,
                <<CostDown(NumNodes), CostUp(NumNodes), 0>>,
                <<CostUp(NumNodes), CostFlat(NumNodes), 1>>,
                <<CostDown(NumNodes), CostUp(NumNodes), 1>>}}

Batches == UNION {[1..b -> Examples] : b \in 1..MaxBatch}

\* grad_output for a batch of b examples
UpPool(b) == {[i \in 1..b |-> -1], [i \in 1..b |-> i + 1]}

----------------------------------------------------------------------------
(* Specification of the model classes: construction, copy, addConstr, relax *)
(* and the forbidden getTour of the relaxations                             *)

EngineIdle ==
    /\ gOptmodel = 0
    /\ gProcesses = -1
    /\ eng = <<>>
    /\ fwd = FwdIdle
    /\ tasks = <<>>
    /\ instances = <<>>
    /\ saved = <<>>
    /\ bwd = <<>>

InitModel ==
    /\ models = <<>>
    /\ last = NoOp
    /\ gt = GtIdle
    /\ grb = GrbIdle
    /\ EngineIdle

\* arguments given to the getTour of a relaxation
TourArgs(n) == {[k \in 1..NumCost(n) |-> 0], [k \in 1..NumCost(n) |-> 1]}

NextModel ==
    \/ \E type \in TspTypes : NewModel(type)
    \/ \E m \in 1..Len(models) : CopyCall(m)
    \/ \E m \in 1..Len(models) : \E coefs \in CoefPool(models[m].num_nodes) : \E rhs \in RhsPool :
           AddConstrCall(m, coefs, rhs)
    \/ \E m \in 1..Len(models) : RelaxCall(m)
    \/ \E m \in 1..Len(models) : \E sol \in TourArgs(models[m].num_nodes) : GetTourForbidden(m, sol)

SpecModel == InitModel /\ [][NextModel]_vars

----------------------------------------------------------------------------
(* Specification of getTour on one integer model *)

InitTour ==
    /\ \E type \in IntegerTypes : \E n \in TourNodeCounts : models = <<Construct(type, n)>>
    /\ last = NoOp
    /\ gt = GtIdle
    /\ grb = GrbIdle
    /\ EngineIdle

NextTour ==
    \/ \E sol \in BinarySols(models[1].num_nodes) : GetTourCall(1, sol)
    \/ GetTourStep
    \/ GetTourReturn

SpecTour == InitTour /\ [][NextTour]_vars

----------------------------------------------------------------------------
(* Specification of forward and backward: a model, the model its addConstr   *)
(* returned, and one SPOPlus bound to either of them                          *)

Init ==
    /\ \E type \in EngineTypes :
          models = <<Construct(type, NumNodes)>>
                     \o AddConstr(Construct(type, NumNodes), UnitVec(NumNodes, 2), 0).new
    /\ \E arg \in 1..2 : \E processes \in 0..CpuCount :
          /\ gOptmodel = arg
          /\ gProcesses = processes
          /\ eng = <<[optmodel |-> arg, processes |-> processes]>>
          /\ last = OpRec("SPOPlus", arg, "", 1, models, <<>>, processes)
    /\ gt = GtIdle
    /\ grb = GrbIdle
    /\ fwd = FwdIdle
    /\ tasks = <<>>
    /\ instances = <<>>
    /\ saved = <<>>
    /\ bwd = <<>>

Next ==
    \/ \E e \in 1..Len(eng) : \E batch \in Batches : ForwardFail(e, batch)
    \/ \E e \in 1..Len(eng) : \E batch \in Batches : ForwardSingle(e, batch)
    \/ \E e \in 1..Len(eng) : \E batch \in Batches : ForwardPoolBegin(e, batch)
    \/ \E i \in 1..Len(tasks) : TaskStart(i)
    \/ \E i \in 1..Len(tasks) : TaskFinish(i)
    \/ ForwardPoolEnd
    \/ \E e \in 1..Len(eng) : \E up \in UpPool(Len(fwd.batch)) : Backward(e, up)
    \/ Release

Spec == Init /\ [][Next]_vars

----------------------------------------------------------------------------
(* Specification of the binding: models and SPOPlus objects are constructed   *)
(* in any order between forward and backward calls                            *)

\* the batches of this specification: one consistent example, one inconsistent
BindBatches ==
    {<<Example(NumNodes, CostUp(NumNodes), CostUp(NumNodes), delta)>> : delta \in {0, 1}}

InitBind ==
    /\ models = <<Construct("tspDFJModel", NumNodes), Construct("maxModel", NumNodes)>>
    /\ last = NoOp
    /\ gt = GtIdle
    /\ grb = GrbIdle
    /\ EngineIdle

NextBind ==
    \/ \E arg \in 0..Len(models) : \E processes \in (-1)..(CpuCount + 1) : NewSPOPlus(arg, processes)
    \/ \E e \in 1..Len(eng) : \E batch \in BindBatches : ForwardFail(e, batch)
    \/ \E e \in 1..Len(eng) : \E batch \in BindBatches : ForwardSingle(e, batch)
    \/ \E e \in 1..Len(eng) : \E batch \in BindBatches : ForwardPoolBegin(e, batch)
    \/ \E i \in 1..Len(tasks) : TaskStart(i)
    \/ \E i \in 1..Len(tasks) : TaskFinish(i)
    \/ ForwardPoolEnd
    \/ \E e \in 1..Len(eng) : Backward(e, [i \in 1..Len(fwd.batch) |-> 1])
    \/ Release

SpecBind == InitBind /\ [][NextBind]_vars

----------------------------------------------------------------------------
(* Specification of the three formulations: each class solves every cost *)

InitForm ==
    /\ models = <<>>
    /\ last = NoOp
    /\ gt = GtIdle
    /\ grb = GrbIdle
    /\ EngineIdle

NextForm ==
    \/ \E n \in FormNodeCounts : \E c \in FormCosts(n) : SolveCall("tspGGModel", n, c)
    \/ \E n \in FormNodeCounts : \E c \in FormCosts(n) : SolveCall("tspMTZModel", n, c)
    \/ \E n \in FormNodeCounts : \E c \in FormCosts(n) : SolveCall("tspDFJModel", n, c)

SpecForm == InitForm /\ [][NextForm]_vars

----------------------------------------------------------------------------
(* Specification of the DFJ callback: subtour on every candidate, and the   *)
(* cutting-plane loop of optimize                                           *)

InitCut ==
    /\ models = <<>>
    /\ last = NoOp
    /\ gt = GtIdle
    /\ grb = GrbIdle
    /\ EngineIdle

NextCut ==
    \/ \E n \in SubtourNodeCounts : \E xvals \in Degree2Table[n] : SubtourCall(n, xvals)
    \/ \E n \in NumNodes..CutNodes : OptimizeBegin(n)
    \/ \E xvals \in Candidates : Callback(xvals)

SpecCut == InitCut /\ [][NextCut]_vars

----------------------------------------------------------------------------
(* Claims on the model classes *)

\* C5: addConstr(coefs, rhs) with len(coefs) = num_cost returns a new model of the
\* same class whose added inequalities are those of the model it was called on
\* followed by coefs . x <= rhs, and leaves every existing model as it was; with
\* another length it raises ValueError and no model is created.
C5_AddConstrAppends ==
    last.op = "addConstr" =>
        IF Len(last.coefs) = NumCost(last.pre[last.self].num_nodes)
        THEN /\ last.err = ""
             /\ Len(models) = Len(last.pre) + 1
             /\ last.ret = Len(models)
             /\ models[last.ret].type = last.pre[last.self].type
             /\ models[last.ret].num_nodes = last.pre[last.self].num_nodes
             /\ models[last.ret].cons =
                    Append(last.pre[last.self].cons, [coefs |-> last.coefs, rhs |-> last.num])
             /\ \A k \in 1..Len(last.pre) : models[k] = last.pre[k]
        ELSE /\ last.err = "ValueError"
             /\ last.ret = 0
             /\ models = last.pre

\* C7: relax() and getTour(sol) on a relaxation model raise RuntimeError, return
\* nothing and leave every model as it was.
C7_RelaxationForbids ==
    (last.op \in {"relax", "getTour"} /\ IsRel(last.pre[last.self].type)) =>
        /\ last.err = "RuntimeError"
        /\ last.ret = 0
        /\ models = last.pre

\* relax was called on a relaxation that itself came out of relax or addConstr
C7_Witness ==
    /\ last.op = "relax"
    /\ IsRel(last.pre[last.self].type)
    /\ last.self > 1
    /\ last.err = "RuntimeError"

----------------------------------------------------------------------------
(* Claims on forward and backward *)

\* the model forward read from the global, as it was when forward was entered
BoundModel == fwd.pre[fwd.optmodel]

Sense == ModelSense(models[gOptmodel].type)

Flip(sense) == IF sense = "MINIMIZE" THEN "MAXIMIZE" ELSE "MINIMIZE"

\* C1: a forward pass through the pool (worker count 0 or above 1) returns the
\* loss vector and the surrogate solutions that the single-worker pass returns on
\* the same batch and the same bound model.
C1_ParallelEqualsSingle ==
    (fwd.pc = "done" /\ fwd.err = "" /\ fwd.processes # 1) =>
        LET single == SingleRun(BoundModel, fwd.batch)
        IN  /\ single.err = ""
            /\ fwd.sol = single.sol
            /\ fwd.loss = LossVector(ModelSense(BoundModel.type), single.obj, fwd.batch)

\* C2: in the pool every started task has a model instance of its own, built by
\* the constructor and given that task's cost; the bound model is not touched;
\* entry i of the results is the result of solving the instance of task i, in any
\* order of completion; and forward returns those entries in that order.
C2_PoolTasksIsolatedAndOrdered ==
    (fwd.pc \in {"pool", "done"} /\ fwd.err = "" /\ fwd.processes # 1) =>
        LET fresh(i) == [Construct(BoundModel.type, BoundModel.num_nodes)
                            EXCEPT !.obj = SurrogateCost(fwd.batch[i])]
            started == {i \in 1..Len(tasks) : tasks[i].state # "queued"}
        IN  /\ models = fwd.pre
            /\ Len(tasks) = Len(fwd.batch)
            /\ \A i \in started :
                  /\ tasks[i].inst \in 1..Len(instances)
                  /\ instances[tasks[i].inst] = fresh(i)
                  /\ \A j \in started \ {i} : tasks[j].inst # tasks[i].inst
            /\ \A solved \in {[i \in 1..Len(tasks) |->
                                  IF tasks[i].state = "done" THEN <<Solve(fresh(i))>> ELSE <<>>]} :
                  /\ \A i \in 1..Len(tasks) : fwd.res[i] = solved[i]
                  /\ fwd.pc = "done" =>
                        \A i \in 1..Len(tasks) :
                            /\ fwd.sol[i] = solved[i][1].sol
                            /\ fwd.obj[i] = solved[i][1].obj
                            /\ fwd.solvedOn[i] = [kind |-> "instance", id |-> tasks[i].inst]

\* the second task of a batch completed before the first, and the two results differ
C2_Witness ==
    /\ fwd.pc = "done"
    /\ fwd.err = ""
    /\ fwd.processes # 1
    /\ Len(fwd.batch) >= 2
    /\ fwd.order[1] = 2
    /\ fwd.obj[1] # fwd.obj[2]

\* C4: when some example of the batch, at any position, fails the consistency
\* check, forward ends with AssertionError: no loss and no solution is returned,
\* nothing was solved, no pool task was made, nothing is saved for backward and
\* the models are as they were.
C4_InconsistentBatchFails ==
    (fwd.pc # "idle" /\ \E i \in 1..Len(fwd.batch) : Inconsistent(fwd.batch[i])) =>
        /\ fwd.pc = "done"
        /\ fwd.err = "AssertionError"
        /\ fwd.loss = <<>>
        /\ fwd.sol = <<>>
        /\ fwd.solvedOn = <<>>
        /\ tasks = <<>>
        /\ instances = <<>>
        /\ saved = <<>>
        /\ models = fwd.pre

\* forward failed on a batch whose first example is consistent and whose second is not
C4_Witness ==
    /\ fwd.err = "AssertionError"
    /\ Len(fwd.batch) >= 2
    /\ ~Inconsistent(fwd.batch[1])
    /\ Inconsistent(fwd.batch[2])

\* C9: for every example forward obtains the optimal objective of the bound model
\* under the cost 2 * cp - c, returns - objective + 2 * dot(cp, w) - z (negated
\* for a MAXIMIZE model), and saves the true and the surrogate solutions.
C9_LossOfSurrogateSolve ==
    (fwd.pc = "done" /\ fwd.err = "") =>
        /\ \A i \in 1..Len(fwd.batch) :
              LET ex == fwd.batch[i]
                  r == Solve([BoundModel EXCEPT !.obj = [k \in 1..Len(ex.cp) |-> 2 * ex.cp[k] - ex.c[k]]])
                  value == - r.obj + 2 * Dot(ex.cp, ex.w) - ex.z
              IN  /\ fwd.obj[i] = r.obj
                  /\ fwd.loss[i] = IF ModelSense(BoundModel.type) = "MINIMIZE" THEN value ELSE - value
        /\ saved = <<[w |-> [i \in 1..Len(fwd.batch) |-> fwd.batch[i].w], wq |-> fwd.sol]>>

\* C10: with the batch, the surrogate objectives and solutions and grad_output
\* kept, the other sense gives the negated loss vector and the negated gradient
\* for the predicted cost; that gradient is grad_output[i] * 2 * mean over the
\* batch of (w - wq) for MINIMIZE (held as a numerator over the batch size), and
\* the three other gradients are None.
C10_SenseFlipNegates ==
    /\ (fwd.pc = "done" /\ fwd.err = "") =>
          /\ fwd.loss = LossVector(Sense, fwd.obj, fwd.batch)
          /\ \A i \in 1..Len(fwd.batch) :
                LossVector(Flip(Sense), fwd.obj, fwd.batch)[i] = - fwd.loss[i]
    /\ bwd # <<>> =>
          LET w == saved[1].w
              wq == saved[1].wq
              b == bwd[1]
          IN  /\ b.den = Len(fwd.batch)
              /\ b.others = <<"None", "None", "None">>
              /\ \A i \in 1..Len(b.up) : \A k \in 1..NumCost(NumNodes) :
                    /\ b.grad[i][k] = b.up[i] * Grad(Sense, w, wq)[k]
                    /\ b.up[i] * Grad(Flip(Sense), w, wq)[k] = - b.grad[i][k]
                    /\ Sense = "MINIMIZE" => b.grad[i][k] = b.up[i] * 2 * SumDiff(w, wq, k, Len(w))

\* backward ran on a MAXIMIZE model with a loss and a gradient that are not zero
C10_Witness ==
    /\ bwd # <<>>
    /\ Sense = "MAXIMIZE"
    /\ \E i \in 1..Len(fwd.loss) : fwd.loss[i] # 0
    /\ \E i \in 1..Len(bwd[1].up) : \E k \in 1..NumCost(NumNodes) : bwd[1].grad[i][k] # 0

----------------------------------------------------------------------------
(* Claims on the binding *)

\* C3: forward and backward called through an SPOPlus object use the model and
\* the worker count that object was constructed with.
C3_EngineKeepsItsBinding ==
    /\ fwd.pc # "idle" =>
          /\ fwd.optmodel = eng[fwd.self].optmodel
          /\ fwd.processes = eng[fwd.self].processes
    /\ bwd # <<>> => bwd[1].optmodel = eng[bwd[1].self].optmodel

----------------------------------------------------------------------------
(* Claims on getTour *)

\* C6: on a solution that is one Hamiltonian cycle over the n nodes, every
\* iteration of the while loop of getTour appends a node (so the loop ends after
\* n - 1 iterations), and the tour returned has n + 1 entries, starts and ends at
\* node 0, has every other node exactly once in between, and joins consecutive
\* nodes by active edges.
C6_TourOfHamiltonianCycle ==
    (gt.pc # "idle" /\ IsHamiltonianCycle(gt.n, gt.sol)) =>
        /\ Len(gt.tour) <= gt.n + 1
        /\ (gt.pc = "loop" /\ TourLoopCond(gt)) =>
               FirstUnvisited(Touch(gt.edges, gt.tour[Len(gt.tour)])[gt.tour[Len(gt.tour)]],
                              gt.visited) # -1
        /\ gt.pc = "done" =>
               /\ Len(gt.tour) = gt.n + 1
               /\ gt.tour[1] = 0
               /\ gt.tour[gt.n + 1] = 0
               /\ {gt.tour[k] : k \in 2..gt.n} = Nodes(gt.n) \ {0}
               /\ \A k \in 1..gt.n :
                      /\ gt.tour[k] # gt.tour[k + 1]
                      /\ Active(gt.sol[EdgeOf(gt.n, gt.tour[k], gt.tour[k + 1])])

\* getTour returned on a Hamiltonian cycle of the largest model that does not
\* visit the nodes in increasing order
C6_Witness ==
    /\ gt.pc = "done"
    /\ gt.n = NumNodes
    /\ IsHamiltonianCycle(gt.n, gt.sol)
    /\ \E k \in 2..(gt.n - 1) : gt.tour[k] > gt.tour[k + 1]

----------------------------------------------------------------------------
(* Claims on the formulations *)

\* C11: on every node count and for every cost vector, the edge vectors that
\* GG, MTZ and DFJ with its lazy cuts admit are the Hamiltonian cycles over all
\* the nodes; the objective value a solve returns is dot(cost, solution) of the
\* solution it returns, the least over the Hamiltonian cycles, and the same for
\* the three classes.
C11_FormulationsAgree ==
    grb.op \in IntegerTypes =>
        /\ {EdgeVector(grb.n, succ) : succ \in GGTable[grb.n]} = ToursTable[grb.n]
        /\ {EdgeVector(grb.n, succ) : succ \in MTZTable[grb.n]} = ToursTable[grb.n]
        /\ DFJTable[grb.n] = ToursTable[grb.n]
        /\ grb.sol \in ToursTable[grb.n]
        /\ grb.obj = Dot(grb.c, grb.sol)
        /\ \A t \in ToursTable[grb.n] : grb.obj <= Dot(grb.c, t)
        /\ \A type \in IntegerTypes : FormSolve(type, grb.n, grb.c).obj = grb.obj
        /\ Solve([Construct(grb.op, grb.n) EXCEPT !.obj = grb.c]).obj = grb.obj

\* GG solved a cost on the largest node count for which the tours differ in cost
C11_Witness ==
    /\ grb.op = "tspGGModel"
    /\ grb.n = NumNodes
    /\ \E t \in ToursTable[grb.n] : Dot(grb.c, t) > grb.obj
    /\ grb.obj = FormSolve("tspDFJModel", grb.n, grb.c).obj

----------------------------------------------------------------------------
(* Claims on the DFJ callback *)

\* the nodes joined to v by a path of active edges of xvals
RECURSIVE Component(_, _, _)
Component(n, xvals, part) ==
    IF part \cup UNION {Adjacent(n, xvals, v) : v \in part} = part
    THEN part
    ELSE Component(n, xvals, part \cup UNION {Adjacent(n, xvals, v) : v \in part})

\* what holds of the latest candidate given to the callback, of the tour that
\* subtour returned on it and of the cuts of the model
C12_Callback ==
    grb.xvals # <<>> =>
        /\ Len(grb.tour) = Cardinality(Range(grb.tour))
        /\ Range(grb.tour) = Component(grb.n, grb.xvals, {grb.tour[1]})
        /\ \A v \in Nodes(grb.n) :
              Cardinality(Component(grb.n, grb.xvals, {v})) >= Len(grb.tour)
        /\ IF Len(grb.tour) < grb.n
           THEN /\ [tour |-> grb.tour, rhs |-> Len(grb.tour) - 1] \in grb.cuts
                /\ grb.op = "optimize" => grb.pc = "search"
                /\ CutSum(grb.n, grb.tour, grb.xvals) > Len(grb.tour) - 1
                /\ \A h \in HamTable[grb.n] :
                      CutSum(grb.n, grb.tour, h) <= Len(grb.tour) - 1
                /\ ~IsHamiltonianCycle(grb.n, grb.xvals)
           ELSE /\ grb.cuts = {}
                /\ grb.op = "optimize" => grb.pc = "done" /\ grb.sol = grb.xvals
                /\ IsHamiltonianCycle(grb.n, grb.xvals)

\* the integer points of the degree constraints that the cuts held leave
Remaining == {s \in Degree2Table[grb.n] : SatisfiesCuts(grb.n, grb.cuts, s)}

\* C12: on every integer point of the degree constraints subtour returns a
\* connected component with the fewest nodes; the callback adds the cut "edges
\* inside the component <= its node count - 1" exactly when that count is below
\* n, the cut is violated by the point and satisfied by every Hamiltonian cycle.
\* The loop ends: every refused candidate brought a cut of its own, every cut
\* takes at least one more point away from the search, the Hamiltonian cycles
\* always stay, and the point accepted is one cycle through all the nodes.
C12_CutLoopEndsOnATour ==
    /\ C12_Callback
    /\ (grb.op = "optimize" /\ grb.pc = "search") =>
          /\ Cardinality(grb.cuts) = grb.refused
          /\ Cardinality(Remaining) <= Cardinality(Degree2Table[grb.n]) - grb.refused
          /\ HamTable[grb.n] \subseteq Remaining
          /\ HamTable[grb.n] # {}
    /\ (grb.op = "optimize" /\ grb.pc = "done") =>
          /\ IsHamiltonianCycle(grb.n, grb.sol)
          /\ grb.refused <= Cardinality(Degree2Table[grb.n] \ HamTable[grb.n])

\* a solve on CutNodes nodes accepted a tour after two candidates were cut off
C12_Witness ==
    /\ grb.op = "optimize"
    /\ grb.n = CutNodes
    /\ grb.pc = "done"
    /\ grb.refused >= 2
    /\ IsHamiltonianCycle(grb.n, grb.sol)

----------------------------------------------------------------------------
(* Claims on a failed construction *)

\* C13: when SPOPlus(optmodel, processes) raises TypeError or ValueError after an
\* SPOPlus was constructed, the model and the worker count that forward and
\* backward read are what they were before the call, and no SPOPlus is added.
C13_FailedConstructionChangesNothing ==
    [][(Len(eng) >= 1 /\ last'.op = "SPOPlus" /\ last'.err # "") =>
          (gOptmodel' = gOptmodel /\ gProcesses' = gProcesses /\ eng' = eng)]_vars

====
